---- MODULE Spec2Model ----
(***************************************************************************)
(* Linear molecular chains: SymbolicMolecularChain / MolecularChainNumeric *)
(* (parser and dynamical-matrix builder) with SymbolicEigenSolver and      *)
(* NumericEigenSolver.  Matrix entries are exact rationals <<num, den>>;   *)
(* the numpy path's floating-point entries are modelled by their exact     *)
(* values.  Indices are 0-based as in the source; TLA+ sequences are       *)
(* 1-based, so structure[i] of the source reads structure[i + 1] here.     *)
(***************************************************************************)
EXTENDS Integers, Sequences, FiniteSets, TLC

\* ---------------------------------------------------------------- bounds
MaxLen == 3
MaxAtoms == 3
MaxMass == 2
MaxSpring == 2
MaxBuilds == 2

\* ------------------------------------------------------------- alphabet
Letters == {"O", "C"}
BondChars == {"=", "-"}
Alphabet == Letters \cup BondChars
Classes == {"Symbolic", "Numeric"}

\* str.isalpha() on one character
IsAlpha(c) == c \in Letters

\* ------------------------------------------------------------ rationals
Abs(x) == IF x < 0 THEN -x ELSE x

RECURSIVE GCD(_, _)
GCD(a, b) == IF b = 0 THEN a ELSE GCD(b, a % b)

\* the rational n/d (d # 0) in lowest terms with a positive denominator
RatBy(n, d, g) ==
    IF d < 0 THEN <<(-n) \div g, (-d) \div g>> ELSE <<n \div g, d \div g>>

Rat(n, d) == IF d = 1 THEN <<n, 1>> ELSE RatBy(n, d, GCD(Abs(n), Abs(d)))

RZero == <<0, 1>>
ROne == <<1, 1>>
RAdd(x, y) == Rat(x[1] * y[2] + y[1] * x[2], x[2] * y[2])
RNeg(x) == <<-x[1], x[2]>>
RMul(x, y) == Rat(x[1] * y[1], x[2] * y[2])

\* ----------------------------------------------------------------- state
VARIABLES
    cls,          \* which chain class is constructed
    structure,    \* self.structure
    mass_dict,    \* self.mass_dict : atom symbol -> mass
    spring_dict,  \* self.spring_dict : bond symbol -> spring constant
    pc,           \* position in the pipeline
    i,            \* scan index of _parse_structure
    atoms,        \* atoms list (self.atoms once the parser returned)
    bonds,        \* bonds list (self.bonds once the parser returned)
    N,            \* self.N
    A,            \* matrix returned by build_matrix
    err,          \* exception raised, "none" if none
    eig,          \* result of the eigensolver
    builds        \* number of build_matrix calls made on the chain

vars == <<cls, structure, mass_dict, spring_dict, pc, i, atoms, bonds, N, A, err, eig,
          builds>>

\* ---------------------------------------------------------------- inputs
\* all strings over the alphabet of length <= MaxLen
AllStrings == UNION {[1..n -> Alphabet] : n \in 0..MaxLen}

\* atom, bond, atom, ..., atom with n atoms
Interleave(as, bs) ==
    [p \in 1..(2 * Len(as) - 1) |->
        IF p % 2 = 1 THEN as[(p + 1) \div 2] ELSE bs[p \div 2]]

ChainStrings ==
    UNION {{Interleave(as, bs) : as \in [1..n -> Letters], bs \in [1..(n - 1) -> BondChars]}
            : n \in 1..MaxAtoms}

Structures == AllStrings \cup ChainStrings

\* mappings with positive values; "C" may be absent from the masses and "-" from
\* the springs (one mapping of each kind: the values of the keys that remain
\* are already varied by the full mappings)
MassDicts ==
    [Letters -> 1..MaxMass] \cup [{"O"} -> {1}]

SpringDicts ==
    [BondChars -> 1..MaxSpring] \cup [{"="} -> {1}]

\* -------------------------------------------------------------- __init__
Init ==
    /\ cls \in Classes
    /\ structure \in Structures
    /\ mass_dict \in MassDicts
    /\ spring_dict \in SpringDicts
    /\ pc = "new"
    /\ i = 0
    /\ atoms = <<>>
    /\ bonds = <<>>
    /\ N = 0
    /\ A = <<>>
    /\ err = "none"
    /\ eig = <<>>
    /\ builds = 0

\* __init__ stores its arguments and enters _parse_structure
Construct ==
    /\ pc = "new"
    /\ pc' = "parsing"
    /\ i' = 0
    /\ atoms' = <<>>
    /\ bonds' = <<>>
    /\ UNCHANGED <<cls, structure, mass_dict, spring_dict, N, A, err, eig, builds>>

\* ------------------------------------------------------ _parse_structure
\* The two classes carry their own copy of the parser (and of build_matrix);
\* the Num... definitions are MolecularChainNumeric's copy, and the operators
\* taking a class c pick the copy of that class.

\* mutant: every character starts an atom
AtomAtAnyChar(s, j) == s[j + 1] \in Alphabet

\* structure[i].isalpha()
AtomAt(s, j) == IsAlpha(s[j + 1])
NumAtomAt(s, j) == IsAlpha(s[j + 1])

\* mutant: a hard-coded bond symbol instead of the spring_dict lookup
HasBondEqualsOnly(s, j, sd) == j + 1 < Len(s) /\ s[j + 2] = "="

\* i + 1 < len(structure) and structure[i + 1] in self.spring_dict
HasBond(s, j, sd) == j + 1 < Len(s) /\ s[j + 2] \in DOMAIN sd
NumHasBond(s, j, sd) == j + 1 < Len(s) /\ s[j + 2] \in DOMAIN sd

IsAtom(c, s, j) == IF c = "Symbolic" THEN AtomAt(s, j) ELSE NumAtomAt(s, j)
BondFollows(c, s, j, sd) ==
    IF c = "Symbolic" THEN HasBond(s, j, sd) ELSE NumHasBond(s, j, sd)

\* mutant: the bond symbol is not stepped over
AfterAtomBondByOne(j) == j + 1

\* i += 2 after an atom and its bond
AfterAtomBond(j) == j + 2

\* i += 1 after an atom without a bond
AfterAtom(j) == j + 1

\* mutant: the character after the skipped one is skipped too
AfterSkipByTwo(j) == j + 2

\* i += 1 after a non-alphabetic character
AfterSkip(j) == j + 1

\* atom followed by a recognised bond symbol: record both, advance by two
ParseAtomBond ==
    /\ pc = "parsing"
    /\ i < Len(structure)
    /\ IsAtom(cls, structure, i)
    /\ BondFollows(cls, structure, i, spring_dict)
    /\ atoms' = Append(atoms, structure[i + 1])
    /\ bonds' = Append(bonds, structure[i + 2])
    /\ i' = AfterAtomBond(i)
    /\ UNCHANGED <<cls, structure, mass_dict, spring_dict, pc, N, A, err, eig, builds>>

\* atom with no recognised bond symbol after it: record the atom, advance by one
ParseAtomOnly ==
    /\ pc = "parsing"
    /\ i < Len(structure)
    /\ IsAtom(cls, structure, i)
    /\ ~BondFollows(cls, structure, i, spring_dict)
    /\ atoms' = Append(atoms, structure[i + 1])
    /\ i' = AfterAtom(i)
    /\ UNCHANGED <<cls, structure, mass_dict, spring_dict, pc, bonds, N, A, err, eig, builds>>

\* non-alphabetic character: advance by one, record nothing
ParseSkip ==
    /\ pc = "parsing"
    /\ i < Len(structure)
    /\ ~IsAtom(cls, structure, i)
    /\ i' = AfterSkip(i)
    /\ UNCHANGED <<cls, structure, mass_dict, spring_dict, pc, atoms, bonds, N, A, err, eig, builds>>

\* loop exit: return atoms, bonds; __init__ sets self.N = len(self.atoms)
ParseReturn ==
    /\ pc = "parsing"
    /\ ~(i < Len(structure))
    /\ N' = Len(atoms)
    /\ pc' = "constructed"
    /\ UNCHANGED <<cls, structure, mass_dict, spring_dict, i, atoms, bonds, A, err, eig, builds>>

\* _parse_structure of class c as a function of its arguments: the result of
\* the loop continued from index j with at, bd collected so far
RECURSIVE ParseFrom(_, _, _, _, _, _)
ParseFrom(c, s, sd, j, at, bd) ==
    IF ~(j < Len(s)) THEN [atoms |-> at, bonds |-> bd]
    ELSE IF IsAtom(c, s, j)
      THEN IF BondFollows(c, s, j, sd)
             THEN ParseFrom(c, s, sd, AfterAtomBond(j),
                            Append(at, s[j + 1]), Append(bd, s[j + 2]))
             ELSE ParseFrom(c, s, sd, AfterAtom(j), Append(at, s[j + 1]), bd)
    ELSE ParseFrom(c, s, sd, AfterSkip(j), at, bd)

ParseStructure(c, s, sd) == ParseFrom(c, s, sd, 0, <<>>, <<>>)

\* ---------------------------------------------------------- build_matrix
\* [self.mass_dict[a] for a in self.atoms], indexed from 0
Masses(as, md) == [j \in 0..(Len(as) - 1) |-> md[as[j + 1]]]

\* [self.spring_dict[b] for b in self.bonds], indexed from 0
Springs(bs, sd) == [j \in 0..(Len(bs) - 1) |-> sd[bs[j + 1]]]

\* sp.zeros(N) / np.zeros((N, N))
Zeros(n) == [r \in 0..(n - 1) |-> [c \in 0..(n - 1) |-> RZero]]

\* mutant: the matrix of the previous call is kept and filled again
StartMatrixReused(prev, n) == IF DOMAIN prev = {} THEN Zeros(n) ELSE prev

\* A = sp.zeros(self.N): every call starts from a new zero matrix, whatever the
\* previous call returned
StartMatrix(prev, n) == Zeros(n)

\* mutant: the left neighbour's mass instead of the atom's own
SetLowerNeighbourMass(M, r, m, k) == [M EXCEPT ![r][r - 1] = RNeg(Rat(k[r - 1], m[r - 1]))]

\* A[i, i - 1] = -k[i - 1] / m[i]
SetLower(M, r, m, k) == [M EXCEPT ![r][r - 1] = RNeg(Rat(k[r - 1], m[r]))]

\* mutant: the term is not divided by the mass
AddLowerNoMass(M, r, m, k) == [M EXCEPT ![r][r] = RAdd(M[r][r], Rat(k[r - 1], 1))]

\* A[i, i] += k[i - 1] / m[i]
AddLower(M, r, m, k) == [M EXCEPT ![r][r] = RAdd(M[r][r], Rat(k[r - 1], m[r]))]

\* mutant: the right neighbour's mass instead of the atom's own
SetUpperNeighbourMass(M, r, m, k) == [M EXCEPT ![r][r + 1] = RNeg(Rat(k[r], m[r + 1]))]

\* A[i, i + 1] = -k[i] / m[i]
SetUpper(M, r, m, k) == [M EXCEPT ![r][r + 1] = RNeg(Rat(k[r], m[r]))]

\* mutant: assignment instead of accumulation
AddUpperAssign(M, r, m, k) == [M EXCEPT ![r][r] = Rat(k[r], m[r])]

\* A[i, i] += k[i] / m[i]
AddUpper(M, r, m, k) == [M EXCEPT ![r][r] = RAdd(M[r][r], Rat(k[r], m[r]))]

\* one iteration of "for i in range(self.N)"
RowBody(M, r, m, k, n) ==
    LET M1 == IF r > 0 THEN AddLower(SetLower(M, r, m, k), r, m, k) ELSE M
    IN  IF r < n - 1 THEN AddUpper(SetUpper(M1, r, m, k), r, m, k) ELSE M1

RECURSIVE Rows(_, _, _, _, _)
Rows(M, r, m, k, n) ==
    IF r >= n THEN M ELSE Rows(RowBody(M, r, m, k, n), r + 1, m, k, n)

\* the mass_dict lookup of some atom raises KeyError
MassLookupRaises(as, md) == \E j \in 1..Len(as) : as[j] \notin DOMAIN md

\* k[i - 1] or k[i] is read past the end of k in some iteration
SpringIndexRaises(n, nk) ==
    \E r \in 0..(n - 1) : (r > 0 /\ r - 1 >= nk) \/ (r < n - 1 /\ r >= nk)

\* MolecularChainNumeric.build_matrix: the same steps on numpy arrays
NumMasses(as, md) == [j \in 0..(Len(as) - 1) |-> md[as[j + 1]]]
NumSprings(bs, sd) == [j \in 0..(Len(bs) - 1) |-> sd[bs[j + 1]]]
NumStartMatrix(prev, n) == Zeros(n)
NumSetLower(M, r, m, k) == [M EXCEPT ![r][r - 1] = RNeg(Rat(k[r - 1], m[r]))]
NumAddLower(M, r, m, k) == [M EXCEPT ![r][r] = RAdd(M[r][r], Rat(k[r - 1], m[r]))]

\* mutant: the minus sign is missing
NumSetUpperNoSign(M, r, m, k) == [M EXCEPT ![r][r + 1] = Rat(k[r], m[r])]

NumSetUpper(M, r, m, k) == [M EXCEPT ![r][r + 1] = RNeg(Rat(k[r], m[r]))]
NumAddUpper(M, r, m, k) == [M EXCEPT ![r][r] = RAdd(M[r][r], Rat(k[r], m[r]))]

NumRowBody(M, r, m, k, n) ==
    LET M1 == IF r > 0 THEN NumAddLower(NumSetLower(M, r, m, k), r, m, k) ELSE M
    IN  IF r < n - 1 THEN NumAddUpper(NumSetUpper(M1, r, m, k), r, m, k) ELSE M1

RECURSIVE NumRows(_, _, _, _, _)
NumRows(M, r, m, k, n) ==
    IF r >= n THEN M ELSE NumRows(NumRowBody(M, r, m, k, n), r + 1, m, k, n)

NumMassLookupRaises(as, md) == \E j \in 1..Len(as) : as[j] \notin DOMAIN md

NumSpringIndexRaises(n, nk) ==
    \E r \in 0..(n - 1) : (r > 0 /\ r - 1 >= nk) \/ (r < n - 1 /\ r >= nk)

\* build_matrix of class c as a function of the chain: the exception it raises
\* ("none" if it returns) and the matrix it returns (prev if it raises)
BuildResult(c, as, bs, md, sd, prev, n) ==
    IF c = "Symbolic"
      THEN IF MassLookupRaises(as, md) THEN [err |-> "KeyError", A |-> prev]
           ELSE IF SpringIndexRaises(n, Len(bs)) THEN [err |-> "IndexError", A |-> prev]
           ELSE [err |-> "none",
                 A |-> Rows(StartMatrix(prev, n), 0, Masses(as, md), Springs(bs, sd), n)]
      ELSE IF NumMassLookupRaises(as, md) THEN [err |-> "KeyError", A |-> prev]
           ELSE IF NumSpringIndexRaises(n, Len(bs)) THEN [err |-> "IndexError", A |-> prev]
           ELSE [err |-> "none",
                 A |-> NumRows(NumStartMatrix(prev, n), 0, NumMasses(as, md),
                               NumSprings(bs, sd), n)]

\* build_matrix, on a freshly constructed chain or again on the same chain
BuildMatrix ==
    /\ pc \in {"constructed", "built"}
    /\ builds < MaxBuilds
    /\ builds' = builds + 1
    /\ \E res \in {BuildResult(cls, atoms, bonds, mass_dict, spring_dict, A, N)} :
         IF res.err # "none"
           THEN /\ pc' = "raised"
                /\ err' = res.err
                /\ A' = A
           ELSE /\ pc' = "built"
                /\ err' = err
                /\ A' = res.A
    /\ UNCHANGED <<cls, structure, mass_dict, spring_dict, i, atoms, bonds, N, eig>>

\* ----------------------------------------------------------- polynomials
\* a polynomial in lambda is the sequence of its coefficients, lowest degree
\* first, without trailing zeros; <<>> is the zero polynomial
RECURSIVE PTrim(_)
PTrim(p) ==
    IF Len(p) = 0 THEN p
    ELSE IF p[Len(p)] = RZero THEN PTrim(SubSeq(p, 1, Len(p) - 1)) ELSE p

PCoef(p, j) == IF j <= Len(p) THEN p[j] ELSE RZero
PConst(x) == PTrim(<<x>>)
PMax(a, b) == IF a > b THEN a ELSE b
PAdd(p, q) == PTrim([j \in 1..PMax(Len(p), Len(q)) |-> RAdd(PCoef(p, j), PCoef(q, j))])
PNeg(p) == [j \in 1..Len(p) |-> RNeg(p[j])]

RECURSIVE PConv(_, _, _, _)
\* sum of p[a] * q[j + 1 - a] for a = from..Len(p)
PConv(p, q, j, from) ==
    IF from > Len(p) THEN RZero
    ELSE RAdd(IF j + 1 - from >= 1 /\ j + 1 - from <= Len(q)
                THEN RMul(p[from], q[j + 1 - from]) ELSE RZero,
              PConv(p, q, j, from + 1))

PMul(p, q) ==
    IF Len(p) = 0 \/ Len(q) = 0 THEN <<>>
    ELSE PTrim([j \in 1..(Len(p) + Len(q) - 1) |-> PConv(p, q, j, 1)])

RECURSIVE PEval(_, _)
\* value of p at x (Horner)
PEval(p, x) ==
    IF Len(p) = 0 THEN RZero ELSE RAdd(p[1], RMul(x, PEval(Tail(p), x)))

\* ----------------------------------------------------------- determinant
\* the matrix without its first row and without column c (rows as sequences)
Minor(M, c) ==
    [r \in 1..(Len(M) - 1) |->
        [d \in 1..(Len(M) - 1) |-> IF d < c THEN M[r + 1][d] ELSE M[r + 1][d + 1]]]

RECURSIVE PDet(_)
RECURSIVE PDetFrom(_, _)
\* cofactor expansion along the first row, columns c..Len(M)
PDetFrom(M, c) ==
    IF c > Len(M) THEN <<>>
    ELSE LET term == IF M[1][c] = <<>> THEN <<>> ELSE PMul(M[1][c], PDet(Minor(M, c)))
         IN  PAdd(IF c % 2 = 1 THEN term ELSE PNeg(term), PDetFrom(M, c + 1))

PDet(M) == IF Len(M) = 0 THEN <<ROne>> ELSE PDetFrom(M, 1)

\* self.matrix - self.lambda_sym * sp.eye(self.N)
MinusLambdaI(M, n) ==
    [r \in 1..n |-> [c \in 1..n |->
        IF r = c THEN <<M[r - 1][c - 1], RNeg(ROne)>> ELSE PConst(M[r - 1][c - 1])]]

\* SymbolicEigenSolver.characteristic_polynomial
CharPoly(M, n) == PDet(MinusLambdaI(M, n))

\* ------------------------------------------------------------ eigensolvers
\* The eigenvalues a solver returns are the roots of a polynomial, which is kept
\* in place of the (in general irrational) values themselves.  All polynomials
\* below have only real roots (a symmetric matrix, or A = M^-1 K, which is
\* similar to one), so Descartes' rule of signs counts their roots exactly.

\* signs of the nonzero coefficients, lowest degree first
RECURSIVE Signs(_)
Signs(p) ==
    IF Len(p) = 0 THEN <<>>
    ELSE IF p[1][1] = 0 THEN Signs(Tail(p))
    ELSE <<IF p[1][1] > 0 THEN 1 ELSE -1>> \o Signs(Tail(p))

SignChanges(sg) == Cardinality({j \in 1..(Len(sg) - 1) : sg[j] # sg[j + 1]})

\* p(-lambda)
PReflect(p) == [j \in 1..Len(p) |-> IF j % 2 = 0 THEN RNeg(p[j]) ELSE p[j]]

\* number of roots < 0, = 0, > 0 (with multiplicity) of a real-rooted polynomial
NegRootCount(p) == SignChanges(Signs(PReflect(p)))
PosRootCount(p) == SignChanges(Signs(p))
ZeroRootCount(p) == Cardinality({j \in 1..Len(p) : \A h \in 1..j : p[h] = RZero})

\* the symmetric matrix np.linalg.eigh decomposes: it reads the lower triangle
\* of its argument only (UPLO = 'L') and never looks at the entries above it
LowerSym(M, n) ==
    [r \in 0..(n - 1) |-> [c \in 0..(n - 1) |-> IF c <= r THEN M[r][c] ELSE M[c][r]]]

\* SymbolicEigenSolver(A).eigenvalues(): the roots of det(A - lambda I)
SolveSymbolic ==
    /\ pc = "built"
    /\ cls = "Symbolic"
    /\ eig' = [poly |-> CharPoly(A, N), clipped |-> 0]
    /\ pc' = "solved"
    /\ UNCHANGED <<cls, structure, mass_dict, spring_dict, i, atoms, bonds, N, A, err, builds>>

\* An eigenvalue is kept exactly, as 0 or as "the j-th smallest root of poly"
\* together with its sign; a frequency is kept as the value whose square root
\* it is, and NaN is the square root of a negative value.
Zero == [root |-> 0, sign |-> 0]
NaN == [root |-> 0, sign |-> -1]

\* the j-th smallest root of the real-rooted polynomial p
RootValue(p, j) ==
    IF j <= NegRootCount(p) THEN [root |-> j, sign |-> -1]
    ELSE IF j <= NegRootCount(p) + ZeroRootCount(p) THEN Zero
    ELSE [root |-> j, sign |-> 1]

\* eigenvals of np.linalg.eigh: the n roots in ascending order
EighValues(p, n) == [j \in 1..n |-> RootValue(p, j)]

\* eigenvecs of np.linalg.eigh: column j belongs to the j-th eigenvalue
EighVectors(n) == [j \in 1..n |-> j]

\* mutant: no clipping
ClipNothing(v) == v

\* np.clip(x, 0, None)
Clip(v) == IF v.sign < 0 THEN Zero ELSE v

\* np.sqrt
Sqrt(v) == IF v.sign < 0 THEN NaN ELSE v

\* np.sqrt(np.clip(eigenvals, 0, None)), elementwise
Freqs(ev) == [j \in 1..Len(ev) |-> Sqrt(Clip(ev[j]))]

\* NumericEigenSolver(A).solve(): eigh's eigenvalues, ascending, are the roots of
\* poly; the negative ones are clipped to 0 before the square root
SolveNumeric ==
    /\ pc = "built"
    /\ cls = "Numeric"
    /\ \E p \in {CharPoly(LowerSym(A, N), N)} :
         \E ev \in {EighValues(p, N)} :
           eig' = [poly |-> p, clipped |-> NegRootCount(p), eigenvals |-> ev,
                   freqs |-> Freqs(ev), eigenvecs |-> EighVectors(N)]
    /\ pc' = "solved"
    /\ UNCHANGED <<cls, structure, mass_dict, spring_dict, i, atoms, bonds, N, A, err, builds>>

Next ==
    \/ Construct
    \/ ParseAtomBond
    \/ ParseAtomOnly
    \/ ParseSkip
    \/ ParseReturn
    \/ BuildMatrix
    \/ SolveSymbolic
    \/ SolveNumeric

Spec == Init /\ [][Next]_vars

\* __init__ alone: the constructor runs _parse_structure to its return; the
\* interpreter keeps executing the loop, so a step that can be taken is taken
ChainNext ==
    \/ Construct
    \/ ParseAtomBond
    \/ ParseAtomOnly
    \/ ParseSkip
    \/ ParseReturn

ChainSpec == Init /\ [][ChainNext]_vars /\ WF_vars(ChainNext)

\* ================================================================ claims
\* _parse_structure has returned (the chain object exists)
Parsed == pc \in {"constructed", "built", "raised", "solved"}

\* build_matrix has returned a matrix
Built == pc \in {"built", "solved"}

\* atoms at even source positions, spring_dict keys at odd ones, atom first and last
WellFormed(s, sd) ==
    /\ Len(s) % 2 = 1
    /\ \A p \in 1..Len(s) :
          IF p % 2 = 1 THEN IsAlpha(s[p]) ELSE s[p] \in DOMAIN sd

EvenChars(s) == [j \in 1..((Len(s) + 1) \div 2) |-> s[2 * j - 1]]
OddChars(s) == [j \in 1..(Len(s) \div 2) |-> s[2 * j]]

CO2 == <<"O", "=", "C", "=", "O">>

\* C1: for every well-formed structure string, _parse_structure returns the
\* even-position characters as atoms and the odd-position characters as bonds,
\* both in left-to-right order.
C1_ParseWellFormed ==
    (Parsed /\ WellFormed(structure, spring_dict)) =>
        /\ atoms = EvenChars(structure)
        /\ bonds = OddChars(structure)

C1_Witness ==
    /\ Parsed
    /\ structure = CO2
    /\ atoms = <<"O", "C", "O">>
    /\ bonds = <<"=", "=">>

\* C2: after constructing a chain from any structure string,
\* len(bonds) == len(atoms) - 1.
C2_BondsOneLessThanAtoms ==
    Parsed => Len(bonds) = Len(atoms) - 1

\* a chain of N >= 1 atoms joined by N - 1 springs whose matrix was built
BuiltChain == Built /\ Len(bonds) = N - 1

m_ == Masses(atoms, mass_dict)
k_ == Springs(bonds, spring_dict)

\* the entry the matrix contract prescribes at row r, column c
Expected(r, c) ==
    IF c = r - 1 THEN RNeg(Rat(k_[r - 1], m_[r]))
    ELSE IF c = r + 1 THEN RNeg(Rat(k_[r], m_[r]))
    ELSE IF c = r
      THEN RAdd(IF r > 0 THEN Rat(k_[r - 1], m_[r]) ELSE RZero,
                IF r < N - 1 THEN Rat(k_[r], m_[r]) ELSE RZero)
    ELSE RZero

\* C3: build_matrix returns the N x N matrix with A[i,i-1] = -k[i-1]/m[i],
\* A[i,i+1] = -k[i]/m[i], A[i,i] the sum of k[i-1]/m[i] and k[i]/m[i] over the
\* neighbours that exist, and 0 elsewhere; exactly the adjacent index pairs
\* carry nonzero off-diagonal entries.
C3_MatrixEntries ==
    BuiltChain =>
        /\ DOMAIN A = 0..(N - 1)
        /\ \A r \in 0..(N - 1) :
              /\ DOMAIN A[r] = 0..(N - 1)
              /\ \A c \in 0..(N - 1) :
                    /\ A[r][c] = Expected(r, c)
                    /\ r # c => (A[r][c] # RZero <=> Abs(r - c) = 1)

C3_Witness ==
    /\ BuiltChain
    /\ structure = <<"O", "=", "C", "-", "O">>
    /\ mass_dict = [O |-> 1, C |-> 2]
    /\ spring_dict["="] = 1 /\ spring_dict["-"] = 2
    /\ A[1] = [c \in 0..2 |-> IF c = 0 THEN <<-1, 2>> ELSE IF c = 1 THEN <<3, 2>> ELSE <<-1, 1>>]
    /\ A[0] = [c \in 0..2 |-> IF c = 0 THEN <<1, 1>> ELSE IF c = 1 THEN <<-1, 1>> ELSE <<0, 1>>]

RECURSIVE RowSumFrom(_, _, _)
\* M[r][c] + ... + M[r][n - 1]
RowSumFrom(M, r, c) ==
    IF c \notin DOMAIN M[r] THEN RZero ELSE RAdd(M[r][c], RowSumFrom(M, r, c + 1))

\* C4: every row of the matrix returned by build_matrix for a valid chain sums
\* to zero (A applied to the all-ones vector is the zero vector).
C4_RowSumsZero ==
    BuiltChain => \A r \in 0..(N - 1) : RowSumFrom(A, r, 0) = RZero

C4_Witness ==
    /\ BuiltChain
    /\ N = 3
    /\ m_[0] # m_[1]
    /\ k_[0] # k_[1]
    /\ A[1][1] = <<3, 1>>
    /\ RowSumFrom(A, 1, 0) = RZero

\* C5 (as stated): the matrix returned by build_matrix is symmetric,
\* A[i,j] == A[j,i], for every valid chain, also with different masses.
C5_Symmetric ==
    BuiltChain => \A r, c \in 0..(N - 1) : A[r][c] = A[c][r]

\* C5 (amended): the matrix is symmetric up to the mass weighting,
\* m[i] * A[i,j] == m[j] * A[j,i]; it is symmetric exactly when every two bonded
\* atoms have equal masses.
C5_MassWeightedSymmetric ==
    BuiltChain =>
        /\ \A r, c \in 0..(N - 1) :
              RMul(Rat(m_[r], 1), A[r][c]) = RMul(Rat(m_[c], 1), A[c][r])
        /\ (\A r, c \in 0..(N - 1) : A[r][c] = A[c][r])
              <=> (\A r \in 0..(N - 2) : m_[r] = m_[r + 1])

C5_Witness ==
    /\ BuiltChain
    /\ N = 3
    /\ m_[0] = 1 /\ m_[1] = 2
    /\ A[0][1] = <<-1, 1>>
    /\ A[1][0] = <<-1, 2>>

\* M applied to the vector v
RECURSIVE DotFrom(_, _, _, _)
DotFrom(M, r, v, c) ==
    IF c \notin DOMAIN v THEN RZero
    ELSE RAdd(RMul(M[r][c], Rat(v[c], 1)), DotFrom(M, r, v, c + 1))

IsNullVector(M, v) == \A r \in DOMAIN M : DotFrom(M, r, v, 0) = RZero

\* C6: for any chain, the lowest eigenvalue the numeric pipeline (build_matrix,
\* then NumericEigenSolver.solve) produces is 0, and its eigenvector has
\* components of equal magnitude: no eigenvalue is negative, 0 is an eigenvalue,
\* and a vector with entries +1/-1 is in the null space of the decomposed matrix.
C6_ZeroModeUniform ==
    (pc = "solved" /\ cls = "Numeric" /\ N >= 1) =>
        /\ NegRootCount(eig.poly) = 0
        /\ ZeroRootCount(eig.poly) >= 1
        /\ \E v \in [0..(N - 1) -> {-1, 1}] : IsNullVector(LowerSym(A, N), v)

\* C7: the eigenvalues the numeric solver computes from build_matrix's matrix
\* are non-negative and are the roots of det(A - lambda I), the polynomial the
\* symbolic solver solves for the same chain and values.  (Both polynomials have
\* degree N and N simple roots, the off-diagonal entries being nonzero, so equal
\* root sets mean equal polynomials.)
C7_NumericMatchesSymbolic ==
    (pc = "solved" /\ cls = "Numeric" /\ Len(bonds) = N - 1) =>
        /\ eig.clipped = 0
        /\ NegRootCount(eig.poly) = 0
        /\ eig.poly = CharPoly(A, N)

\* lambda - x
PRoot(x) == <<RNeg(x), ROne>>

\* C8: for "O=C=O" with masses {O: m, C: M} and springs {'=': k}, the roots of
\* det(A - lambda I) are exactly 0, k/m and (k/m)(1 + 2m/M): each is a root, and
\* the polynomial is -lambda (lambda - k/m)(lambda - (k/m)(1 + 2m/M)), which
\* has no other root.
C8_CO2Eigenvalues ==
    (Built /\ structure = CO2) =>
        LET m == mass_dict["O"]
            M == mass_dict["C"]
            k == spring_dict["="]
            r1 == Rat(k, m)
            r2 == RMul(Rat(k, m), RAdd(ROne, Rat(2 * m, M)))
            p == CharPoly(A, N)
        IN  /\ PEval(p, RZero) = RZero
            /\ PEval(p, r1) = RZero
            /\ PEval(p, r2) = RZero
            /\ p = PNeg(PMul(PRoot(RZero), PMul(PRoot(r1), PRoot(r2))))
            /\ pc = "solved" /\ cls = "Symbolic" => eig.poly = p

C8_Witness ==
    /\ pc = "solved"
    /\ cls = "Symbolic"
    /\ structure = CO2
    /\ mass_dict = [O |-> 2, C |-> 1]
    /\ spring_dict["="] = 1
    /\ eig.poly = <<<<0, 1>>, <<-5, 4>>, <<3, 1>>, <<-1, 1>>>>
    /\ PEval(eig.poly, <<5, 2>>) = RZero

\* the structure holds an atom symbol absent from the mass mapping, or a
\* non-alphabetic symbol absent from the spring mapping
HasUnknownSymbol(s, md, sd) ==
    \E p \in 1..Len(s) :
        IF IsAlpha(s[p]) THEN s[p] \notin DOMAIN md ELSE s[p] \notin DOMAIN sd

\* C9: a structure with an atom symbol absent from the mass mapping or a bond
\* symbol absent from the spring mapping fails with an unknown-symbol error
\* (here: the KeyError of the mapping lookup) and yields no matrix; an unknown
\* bond character is never silently dropped.
C9_UnknownSymbolRejected ==
    HasUnknownSymbol(structure, mass_dict, spring_dict) =>
        /\ ~Built
        /\ pc = "raised" => err = "KeyError"

\* empty, or starting or ending with a bond symbol
Malformed(s, sd) ==
    \/ Len(s) = 0
    \/ /\ Len(s) > 0
       /\ (s[1] \in DOMAIN sd \/ s[Len(s)] \in DOMAIN sd)

\* C10: a malformed structure string (empty, or starting or ending with a bond
\* symbol) is rejected: no chain object (atoms, bonds, N) is produced for it.
C10_MalformedRejected ==
    Malformed(structure, spring_dict) => ~Parsed

\* C11: build_matrix checks that the number of springs is the number of masses
\* minus one and raises on any mismatch (too few or too many bonds): it never
\* returns a matrix built from a mismatched chain.
C11_DimensionChecked ==
    Built => Len(bonds) = N - 1

\* f <= g for two frequencies (the roots are numbered in ascending order)
FreqLeq(f, g) ==
    /\ f # NaN
    /\ g # NaN
    /\ f = Zero \/ (g # Zero /\ f.root <= g.root)

\* C12: NumericEigenSolver.solve returns one frequency per eigenvalue, each the
\* square root of max(lambda_i, 0) for the eigenvalues in ascending order: every
\* frequency is >= 0 (never NaN), the sequence is non-decreasing, and frequency
\* i is paired with eigenvector column i.
C12_FrequenciesClippedAscending ==
    (pc = "solved" /\ cls = "Numeric") =>
        LET p == eig.poly
            nonpos == NegRootCount(p) + ZeroRootCount(p)
        IN  /\ Len(eig.freqs) = N
            /\ Len(eig.eigenvecs) = N
            /\ NegRootCount(p) + ZeroRootCount(p) + PosRootCount(p) = N
            /\ \A j \in 1..N :
                  /\ eig.freqs[j] = IF j <= nonpos THEN Zero ELSE [root |-> j, sign |-> 1]
                  /\ eig.freqs[j] # NaN
                  /\ eig.eigenvecs[j] = j
            /\ \A j \in 1..(N - 1) : FreqLeq(eig.freqs[j], eig.freqs[j + 1])

C12_Witness ==
    /\ pc = "solved"
    /\ cls = "Numeric"
    /\ N = 3
    /\ eig.clipped = 1
    /\ eig.eigenvals[1] = [root |-> 1, sign |-> -1]
    /\ eig.freqs = <<Zero, [root |-> 2, sign |-> 1], [root |-> 3, sign |-> 1]>>

\* C13: build_matrix is idempotent: a call leaves the chain's atoms, bonds, N
\* and the two mappings unchanged, and a second call on the same chain returns
\* a matrix entrywise identical to the first.
C13_BuildIdempotent ==
    [][builds' = builds + 1 =>
          /\ UNCHANGED <<structure, atoms, bonds, N, mass_dict, spring_dict>>
          /\ pc = "built" => (pc' = "built" /\ A' = A)]_vars

C13_Witness ==
    /\ pc = "built"
    /\ builds = 2
    /\ N = 3
    /\ A[1][1] = <<3, 2>>

\* alphabetic, or a key of the spring mapping
Recognized(ch, sd) == IsAlpha(ch) \/ ch \in DOMAIN sd

\* the string with every unrecognized character deleted
Strip(s, sd) == SelectSeq(s, LAMBDA ch : Recognized(ch, sd))

\* an atom and a later bond symbol with only unrecognized characters (at least
\* one) between them
GapBeforeBond(s, sd) ==
    \E p, q \in 1..Len(s) :
        /\ p + 1 < q
        /\ IsAlpha(s[p])
        /\ s[q] \in DOMAIN sd
        /\ \A x \in (p + 1)..(q - 1) : ~Recognized(s[x], sd)

\* C14 (as stated): unrecognized characters are silently skipped: for every
\* input the returned (atoms, bonds) equals the parse of the string with all
\* such characters deleted, and no error is raised.
C14_SkipEqualsDeletion ==
    pc = "constructed" =>
        LET r == ParseStructure(cls, Strip(structure, spring_dict), spring_dict)
        IN  /\ atoms = r.atoms
            /\ bonds = r.bonds
            /\ err = "none"

\* C14 (amended): no error is raised and the atoms are those of the stripped
\* string; the bonds are those of the stripped string exactly when no
\* unrecognized character stands between an atom and the bond symbol that
\* follows it (that bond is dropped together with the skipped character).
C14_SkipDropsFollowingBond ==
    pc = "constructed" =>
        LET r == ParseStructure(cls, Strip(structure, spring_dict), spring_dict)
        IN  /\ atoms = r.atoms
            /\ bonds = r.bonds <=> ~GapBeforeBond(structure, spring_dict)
            /\ Len(bonds) <= Len(r.bonds)
            /\ err = "none"

C14_Witness ==
    /\ pc = "constructed"
    /\ structure = <<"O", "-", "=">>
    /\ "-" \notin DOMAIN spring_dict
    /\ atoms = <<"O">>
    /\ bonds = <<>>
    /\ ParseStructure(cls, <<"O", "=">>, spring_dict).bonds = <<"=">>

AtomsOfPrefix(s, n) == SelectSeq(SubSeq(s, 1, n), LAMBDA ch : IsAlpha(ch))

\* the spring_dict keys among the first n characters of s that stand directly
\* after an alphabetic character, in order
RECURSIVE BondsOfPrefix(_, _, _)
BondsOfPrefix(s, sd, n) ==
    IF n = 0 THEN <<>>
    ELSE IF n >= 2 /\ s[n] \in DOMAIN sd /\ IsAlpha(s[n - 1])
      THEN Append(BondsOfPrefix(s, sd, n - 1), s[n])
    ELSE BondsOfPrefix(s, sd, n - 1)

\* positions (from 1) among the first n characters of s that hold a spring_dict
\* key at the start of the string or directly after a non-alphabetic character
DroppedBondPositions(s, sd, n) ==
    {p \in 1..n : s[p] \in DOMAIN sd /\ (p = 1 \/ ~IsAlpha(s[p - 1]))}

\* C16: in _parse_structure a bond is recorded only when its character
\* immediately follows an atom character: after every step of the scan
\* len(bonds) <= len(atoms), the atoms are the alphabetic characters scanned so
\* far, the bonds are exactly the bond symbols scanned so far that stand
\* directly after an atom (the j-th bond after an atom that is at least the
\* j-th), and a bond symbol at position 0 or directly after a non-atom (such as
\* a consumed bond symbol) is recorded nowhere.
C16_BondOnlyAfterAtom ==
    pc \in {"parsing", "constructed"} =>
        /\ i <= Len(structure)
        /\ Len(bonds) <= Len(atoms)
        /\ atoms = AtomsOfPrefix(structure, i)
        /\ bonds = BondsOfPrefix(structure, spring_dict, i)
        /\ Len(bonds) + Cardinality(DroppedBondPositions(structure, spring_dict, i))
              = Cardinality({p \in 1..i : structure[p] \in DOMAIN spring_dict})
        /\ \A j \in 1..Len(bonds) :
              \E p \in 2..i :
                  /\ structure[p] = bonds[j]
                  /\ IsAlpha(structure[p - 1])
                  /\ Len(BondsOfPrefix(structure, spring_dict, p)) = j
                  /\ Len(AtomsOfPrefix(structure, p)) >= j

C16_Witness ==
    /\ pc = "constructed"
    /\ structure = <<"=", "O", "=">>
    /\ spring_dict["="] = 1
    /\ atoms = <<"O">>
    /\ bonds = <<"=">>
    /\ DroppedBondPositions(structure, spring_dict, i) = {1}

\* C17: _parse_structure terminates on every structure string: each loop
\* iteration advances i by exactly 2 (an atom with its bond) or exactly 1
\* (anything else), so i never decreases and no position is current twice; i
\* never exceeds len(structure); the loop exits with i = len(structure), and it
\* does exit.
C17_ParseTerminates ==
    /\ [][pc = "parsing" =>
            /\ i <= Len(structure)
            /\ i < Len(structure) =>
                  /\ pc' = "parsing"
                  /\ i' <= Len(structure)
                  /\ i' = IF /\ IsAlpha(structure[i + 1])
                             /\ i + 1 < Len(structure)
                             /\ structure[i + 2] \in DOMAIN spring_dict
                          THEN i + 2 ELSE i + 1
            /\ ~(i < Len(structure)) =>
                  /\ i = Len(structure)
                  /\ i' = i
                  /\ pc' = "constructed"]_vars
    /\ (pc = "parsing") ~> (pc = "constructed" /\ i = Len(structure))

C17_Witness ==
    /\ pc = "constructed"
    /\ structure = <<"O", "=", "C", "-", "O">>
    /\ DOMAIN spring_dict = BondChars
    /\ i = 5
    /\ atoms = <<"O", "C", "O">>

====
